---- MODULE Spec2Model ----
(***************************************************************************)
(* Kinesix gesture backend (src/lib/src/lib.rs): the gesture classifier    *)
(* KinesixBackend::handle_gesture with handle_swipe_gesture and            *)
(* handle_pinch_gesture, the accumulator Input::swipe_x_max/swipe_y_max    *)
(* and the two delegates (callbacks).                                      *)
(*                                                                         *)
(* f64 deltas are modelled by integers in device units; a pinch scale is   *)
(* modelled in tenths (ScaleOne = 10 stands for 1.0).                      *)
(***************************************************************************)
EXTENDS Integers, Sequences, FiniteSets, TLC

\* ------------------------------------------------------------------ bounds
\* Largest magnitude of a sampled swipe delta.
MaxDelta == 20
\* Finger counts are 2..MaxFingers.
MaxFingers == 3
\* Pinch scales are ScaleOne-ScaleSpread .. ScaleOne+ScaleSpread (tenths).
ScaleSpread == 4
\* Number of End events logged by SpecOrder.
MaxEnds == 3
\* Number of start_polling calls (poller threads spawned) on one backend.
MaxStarts == 2
\* Number of stop_polling calls between two start_polling calls.
MaxStops == 2
\* Readiness signals held by one (unbounded) mpsc channel.
MaxSignals == 2
\* Character devices under DEVICES_PATH; their paths are 1..MaxDevices, in
\* the order of String::cmp.
MaxDevices == 3
\* Directory scans made by get_valid_device_list on one backend.
MaxScans == 2
MaxEvents == 2
MaxLatePolls == 2

\* ------------------------------------------------------- program constants
\* const GESTURE_DELTA: f64 = 10.0;
GESTURE_DELTA == 10
\* the literal 1.0 of handle_pinch_gesture, in tenths
ScaleOne == 10

\* ------------------------------------------------------------- input sets
\* Sampled dx/dy values: both signs, the threshold itself, values below and
\* above it, equal magnitudes of opposite sign, and the largest magnitude.
DeltaVals == {-15, -GESTURE_DELTA, -2, -1, 0, GESTURE_DELTA, 15} \cup {-MaxDelta, MaxDelta}
Fingers == 2..MaxFingers
ScaleVals == (ScaleOne - ScaleSpread)..(ScaleOne + ScaleSpread)

\* libinput::EventType, the six gesture types and one non-gesture type.
SwipeTypes == {"GestureSwipeBegin", "GestureSwipeUpdate", "GestureSwipeEnd"}
PinchTypes == {"GesturePinchBegin", "GesturePinchUpdate", "GesturePinchEnd"}
BeginTypes == {"GestureSwipeBegin", "GesturePinchBegin"}
UpdateTypes == {"GestureSwipeUpdate", "GesturePinchUpdate"}
EndTypes == {"GestureSwipeEnd", "GesturePinchEnd"}

\* An event as the accessors of libinput see it.  Fields an event type does
\* not carry hold a fixed default.  The finger count of an Update is read and
\* dropped by the handlers (only that of a Finished event is passed on), so
\* the Update events carry a single finger count.
Ev(t, f, dx, dy, s, c) ==
    [type |-> t, finger_count |-> f, dx |-> dx, dy |-> dy, scale |-> s, cancelled |-> c]

NoEvent == Ev("None", 0, 0, 0, ScaleOne, FALSE)

Events ==
    {Ev(t, f, 0, 0, ScaleOne, FALSE) : t \in BeginTypes, f \in Fingers}
    \cup {Ev("GestureSwipeUpdate", 2, dx, dy, ScaleOne, FALSE) :
            dx \in DeltaVals, dy \in DeltaVals}
    \cup {Ev("GesturePinchUpdate", 2, 0, 0, s, FALSE) : s \in ScaleVals}
    \cup {Ev(t, f, 0, 0, ScaleOne, c) : t \in EndTypes, f \in Fingers, c \in BOOLEAN}
    \cup {Ev("PointerMotion", 0, 0, 0, ScaleOne, FALSE)}

\* --------------------------------------------------------------- the state
VARIABLES
    ongoing_gesture_type,   \* KinesixBackend::ongoing_gesture_type
    swipe_x_max,            \* Input::swipe_x_max
    swipe_y_max,            \* Input::swipe_y_max
    event,                  \* the event handle_gesture was last called with
    calls,                  \* delegate invocations made by that call, in order
    obs,                    \* observer of the current gesture (history)
    cb_log,                 \* observer: End ordinals and callbacks (SpecOrder)
    fresh,                  \* observer: a backend fed the current gesture only
    event_poller_thread,    \* KinesixBackend::event_poller_thread
    threads,                \* the poller threads spawned by start_polling
    main_pc,                \* where the thread that owns the backend is
    input_released,         \* Drop for Input has run libinput_unref
    poll_obs,               \* observer: stop_polling calls since the last start
    dev_env,                \* the devices of the machine and the std of the build
    valid_device_list,      \* KinesixBackend::valid_device_list
    active_device,          \* KinesixBackend::active_device: an index, 0 = null
    input_active_device,    \* Input::active_device: the path it was added for, 0 = null
    path_devices,           \* libinput context: devices currently added, per path
    dev_obs,                \* observer: the last device operation
    timers,                 \* GLib main loop: timeout sources calling on_event_ready
    stream,                 \* the events that reached the descriptor, in order
    dispatched,             \* how many of them libinput_dispatch has read
    libinput_queue,         \* libinput context: events for libinput_get_event
    fed,                    \* observer: the events handle_gesture was called with
    bridge_obs,             \* observer: the last on_event_ready invocation
    source_obs              \* observer: who called into the libinput context

classvars == <<ongoing_gesture_type, swipe_x_max, swipe_y_max, event, calls, obs,
               cb_log, fresh>>

pollvars == <<event_poller_thread, threads, main_pc, input_released, poll_obs>>

devvars == <<dev_env, valid_device_list, active_device, input_active_device,
             path_devices, dev_obs>>

bridgevars == <<timers, stream, dispatched, libinput_queue, fed, bridge_obs,
                source_obs>>

vars == <<classvars, pollvars, devvars, bridgevars>>

\* enum GestureType
Unknown == [kind |-> "Unknown", arg |-> "None"]
Swipe(d) == [kind |-> "Swipe", arg |-> d]
Pinch(t) == [kind |-> "Pinch", arg |-> t]

SwipeDirections == {"SwipeUp", "SwipeDown", "SwipeLeft", "SwipeRight"}
PinchKinds == {"PinchIn", "PinchOut"}

\* f64::abs
Abs(x) == IF x < 0 THEN -x ELSE x

\* ------------------------------------------------- handle_swipe_gesture
\* Mutant of SwipeMax: a sample of equal magnitude replaces the peak.
SwipeMaxOrEqual(max, current) == IF Abs(max) <= Abs(current) THEN current ELSE max

\* Mutant of SwipeMax: the accumulator holds the last sample.
SwipeMaxLast(max, current) == current

\* if x_max.abs() < x_current.abs() { x_max = x_current; }   (same for y)
SwipeMax(max, current) == IF Abs(max) < Abs(current) THEN current ELSE max

\* Mutant of SwipeDecision: the threshold comparisons are not strict.
SwipeDecisionInclusive(ongoing, x_max, y_max) ==
    IF Abs(y_max) > Abs(x_max)
    THEN IF y_max <= -GESTURE_DELTA THEN Swipe("SwipeUp")
         ELSE IF y_max >= GESTURE_DELTA THEN Swipe("SwipeDown")
         ELSE ongoing
    ELSE IF Abs(x_max) > Abs(y_max)
    THEN IF x_max <= -GESTURE_DELTA THEN Swipe("SwipeLeft")
         ELSE IF x_max >= GESTURE_DELTA THEN Swipe("SwipeRight")
         ELSE ongoing
    ELSE ongoing

\* The direction decision of a swipe update, from the updated peaks.
SwipeDecision(ongoing, x_max, y_max) ==
    IF Abs(y_max) > Abs(x_max)
    THEN IF y_max < -GESTURE_DELTA THEN Swipe("SwipeUp")
         ELSE IF y_max > GESTURE_DELTA THEN Swipe("SwipeDown")
         ELSE ongoing
    ELSE IF Abs(x_max) > Abs(y_max)
    THEN IF x_max < -GESTURE_DELTA THEN Swipe("SwipeLeft")
         ELSE IF x_max > GESTURE_DELTA THEN Swipe("SwipeRight")
         ELSE ongoing
    ELSE ongoing

\* Mutant of handle_swipe_gesture: the direction is decided from the current
\* sample, not from the peaks.
handle_swipe_gesture_sample(st, ev) ==
    LET x_max == IF ev.type = "GestureSwipeUpdate"
                 THEN SwipeMax(st.swipe_x_max, ev.dx) ELSE st.swipe_x_max
        y_max == IF ev.type = "GestureSwipeUpdate"
                 THEN SwipeMax(st.swipe_y_max, ev.dy) ELSE st.swipe_y_max
    IN  [gesture_state |->
            CASE ev.type = "GestureSwipeBegin" -> "Started"
              [] ev.type = "GestureSwipeUpdate" -> "Ongoing"
              [] ev.type = "GestureSwipeEnd" -> "Finished"
              [] OTHER -> "Unknown",
         finger_count |-> ev.finger_count,
         ongoing_gesture_type |->
            IF ev.type = "GestureSwipeUpdate"
            THEN SwipeDecision(st.ongoing_gesture_type, ev.dx, ev.dy)
            ELSE st.ongoing_gesture_type,
         swipe_x_max |-> x_max,
         swipe_y_max |-> y_max]

\* Mutant of handle_swipe_gesture: a Begin clears the peaks and the
\* classification.
handle_swipe_gesture_reset(st, ev) ==
    LET x_max == IF ev.type = "GestureSwipeUpdate"
                 THEN SwipeMax(st.swipe_x_max, ev.dx)
                 ELSE IF ev.type = "GestureSwipeBegin" THEN 0
                 ELSE st.swipe_x_max
        y_max == IF ev.type = "GestureSwipeUpdate"
                 THEN SwipeMax(st.swipe_y_max, ev.dy)
                 ELSE IF ev.type = "GestureSwipeBegin" THEN 0
                 ELSE st.swipe_y_max
    IN  [gesture_state |->
            CASE ev.type = "GestureSwipeBegin" -> "Started"
              [] ev.type = "GestureSwipeUpdate" -> "Ongoing"
              [] ev.type = "GestureSwipeEnd" -> "Finished"
              [] OTHER -> "Unknown",
         finger_count |-> ev.finger_count,
         ongoing_gesture_type |->
            IF ev.type = "GestureSwipeUpdate"
            THEN SwipeDecision(st.ongoing_gesture_type, x_max, y_max)
            ELSE IF ev.type = "GestureSwipeBegin" THEN Unknown
            ELSE st.ongoing_gesture_type,
         swipe_x_max |-> x_max,
         swipe_y_max |-> y_max]

\* st is [ongoing_gesture_type, swipe_x_max, swipe_y_max]; the result adds the
\* returned (gesture_state, finger_count).
handle_swipe_gesture(st, ev) ==
    LET x_max == IF ev.type = "GestureSwipeUpdate"
                 THEN SwipeMax(st.swipe_x_max, ev.dx) ELSE st.swipe_x_max
        y_max == IF ev.type = "GestureSwipeUpdate"
                 THEN SwipeMax(st.swipe_y_max, ev.dy) ELSE st.swipe_y_max
    IN  [gesture_state |->
            CASE ev.type = "GestureSwipeBegin" -> "Started"
              [] ev.type = "GestureSwipeUpdate" -> "Ongoing"
              [] ev.type = "GestureSwipeEnd" -> "Finished"
              [] OTHER -> "Unknown",
         finger_count |-> ev.finger_count,
         ongoing_gesture_type |->
            IF ev.type = "GestureSwipeUpdate"
            THEN SwipeDecision(st.ongoing_gesture_type, x_max, y_max)
            ELSE st.ongoing_gesture_type,
         swipe_x_max |-> x_max,
         swipe_y_max |-> y_max]

\* ------------------------------------------------- handle_pinch_gesture
\* Mutant of PinchDecision: a pinch type, once set, is kept.
PinchDecisionSticky(ongoing, scale) ==
    IF ongoing.kind = "Pinch" THEN ongoing
    ELSE IF scale > ScaleOne THEN Pinch("PinchOut")
    ELSE IF scale < ScaleOne THEN Pinch("PinchIn")
    ELSE ongoing

\* if scale > 1.0 { PinchOut }  if scale < 1.0 { PinchIn }
PinchDecision(ongoing, scale) ==
    IF scale > ScaleOne THEN Pinch("PinchOut")
    ELSE IF scale < ScaleOne THEN Pinch("PinchIn")
    ELSE ongoing

handle_pinch_gesture(st, ev) ==
    [gesture_state |->
        CASE ev.type = "GesturePinchBegin" -> "Started"
          [] ev.type = "GesturePinchUpdate" -> "Ongoing"
          [] ev.type = "GesturePinchEnd" -> "Finished"
          [] OTHER -> "Unknown",
     finger_count |-> ev.finger_count,
     ongoing_gesture_type |->
        IF ev.type = "GesturePinchUpdate"
        THEN PinchDecision(st.ongoing_gesture_type, ev.scale)
        ELSE st.ongoing_gesture_type,
     swipe_x_max |-> st.swipe_x_max,
     swipe_y_max |-> st.swipe_y_max]

\* ------------------------------------------------------- handle_gesture
\* A delegate invocation: which delegate, its first argument, finger_count.
Call(cb, arg, fc) == [cb |-> cb, arg |-> arg, finger_count |-> fc]

\* Mutant of Delegate: the Pinch arm is missing.
DelegateSwipeOnly(ongoing, fc) ==
    IF ongoing.kind = "Swipe" THEN <<Call("swipe", ongoing.arg, fc)>> ELSE <<>>

\* match self.ongoing_gesture_type.borrow() { Swipe(d) => swipe_delegate(d, fc),
\*   Pinch(t) => pinch_delegate(t, fc), Unknown => {} }
Delegate(ongoing, fc) ==
    CASE ongoing.kind = "Swipe" -> <<Call("swipe", ongoing.arg, fc)>>
      [] ongoing.kind = "Pinch" -> <<Call("pinch", ongoing.arg, fc)>>
      [] OTHER -> <<>>

\* Mutant of Finish: the cancelled flag is not consulted.
FinishIgnoreCancelled(r, ev) ==
    IF r.gesture_state = "Finished"
    THEN [ongoing_gesture_type |-> Unknown,
          swipe_x_max |-> 0,
          swipe_y_max |-> 0,
          calls |-> Delegate(r.ongoing_gesture_type, r.finger_count)]
    ELSE [ongoing_gesture_type |-> r.ongoing_gesture_type,
          swipe_x_max |-> r.swipe_x_max,
          swipe_y_max |-> r.swipe_y_max,
          calls |-> <<>>]

\* Mutant of Finish: the accumulator is not reset after the delegate call.
FinishKeepAccumulator(r, ev) ==
    IF r.gesture_state = "Finished" /\ ~ev.cancelled
    THEN [ongoing_gesture_type |-> Unknown,
          swipe_x_max |-> r.swipe_x_max,
          swipe_y_max |-> r.swipe_y_max,
          calls |-> Delegate(r.ongoing_gesture_type, r.finger_count)]
    ELSE [ongoing_gesture_type |-> r.ongoing_gesture_type,
          swipe_x_max |-> r.swipe_x_max,
          swipe_y_max |-> r.swipe_y_max,
          calls |-> <<>>]

\* Mutant of Finish: the gesture state is not consulted.
FinishAnyState(r, ev) ==
    IF ~ev.cancelled
    THEN [ongoing_gesture_type |-> Unknown,
          swipe_x_max |-> 0,
          swipe_y_max |-> 0,
          calls |-> Delegate(r.ongoing_gesture_type, r.finger_count)]
    ELSE [ongoing_gesture_type |-> r.ongoing_gesture_type,
          swipe_x_max |-> r.swipe_x_max,
          swipe_y_max |-> r.swipe_y_max,
          calls |-> <<>>]

\* Mutant of Finish: the classification is not reset after the delegate call.
FinishKeepClassification(r, ev) ==
    IF r.gesture_state = "Finished" /\ ~ev.cancelled
    THEN [ongoing_gesture_type |-> r.ongoing_gesture_type,
          swipe_x_max |-> 0,
          swipe_y_max |-> 0,
          calls |-> Delegate(r.ongoing_gesture_type, r.finger_count)]
    ELSE [ongoing_gesture_type |-> r.ongoing_gesture_type,
          swipe_x_max |-> r.swipe_x_max,
          swipe_y_max |-> r.swipe_y_max,
          calls |-> <<>>]

\* The part of handle_gesture after the match on the event type.
Finish(r, ev) ==
    IF r.gesture_state = "Finished" /\ ~ev.cancelled
    THEN [ongoing_gesture_type |-> Unknown,
          swipe_x_max |-> 0,
          swipe_y_max |-> 0,
          calls |-> Delegate(r.ongoing_gesture_type, r.finger_count)]
    ELSE [ongoing_gesture_type |-> r.ongoing_gesture_type,
          swipe_x_max |-> r.swipe_x_max,
          swipe_y_max |-> r.swipe_y_max,
          calls |-> <<>>]

\* The result is the new [ongoing_gesture_type, swipe_x_max, swipe_y_max] and
\* the delegate invocations made (calls).
handle_gesture(st, ev) ==
    IF ev.type \in SwipeTypes THEN Finish(handle_swipe_gesture(st, ev), ev)
    ELSE IF ev.type \in PinchTypes THEN Finish(handle_pinch_gesture(st, ev), ev)
    ELSE Finish([gesture_state |-> "Unknown", finger_count |-> 0,
                 ongoing_gesture_type |-> st.ongoing_gesture_type,
                 swipe_x_max |-> st.swipe_x_max,
                 swipe_y_max |-> st.swipe_y_max], ev)

\* The classifier's fields as a record.
Classifier ==
    [ongoing_gesture_type |-> ongoing_gesture_type,
     swipe_x_max |-> swipe_x_max,
     swipe_y_max |-> swipe_y_max]

\* ------------------------------------------------------------- observers
\* History of the gesture in progress, kept beside the program state.
\*   family : "idle" before a Begin and after an End; "swipe"/"pinch" while the
\*            events since the last Begin are all of that family; else "mixed"
\*   clean  : the last Begin found classification Unknown and accumulator
\*            (0,0), and only Updates of its family followed it
\*   dom    : while family is "swipe": direction of the dominant peak after
\*            the last swipe Update that left one peak strictly dominant and
\*            beyond the threshold, "None" when there was none
\*   pinch  : while family is "pinch": side of 1.0 of the last pinch Update
\*            whose scale differs from 1.0, "None" when there was none
\*   tie    : while family is "swipe": the two peaks are equal in magnitude
\*            and beyond the threshold
\*   ex5    : progress through Begin(3), Update(-2,-15), Update(-1,-MaxDelta)
\*            from classification Unknown and accumulator (0,0)
\*   ex7    : progress through Begin(2), Update(1.4), Update(0.9)
\*   ended  : the last gesture event was an End; the other fields then still
\*            describe the gesture that End closed
ObsInit ==
    [family |-> "idle", clean |-> FALSE, dom |-> "None", pinch |-> "None",
     tie |-> FALSE, ex5 |-> 0, ex7 |-> 0, ended |-> FALSE]

FamilyOf(t) == IF t \in SwipeTypes THEN "swipe" ELSE "pinch"

\* Direction of the strictly dominant peak when it lies beyond the threshold.
DominantDir(x, y) ==
    IF Abs(y) > Abs(x) /\ Abs(y) > GESTURE_DELTA
    THEN (IF y < 0 THEN "SwipeUp" ELSE "SwipeDown")
    ELSE IF Abs(x) > Abs(y) /\ Abs(x) > GESTURE_DELTA
    THEN (IF x < 0 THEN "SwipeLeft" ELSE "SwipeRight")
    ELSE "None"

PinchSide(scale) ==
    IF scale > ScaleOne THEN "PinchOut"
    ELSE IF scale < ScaleOne THEN "PinchIn"
    ELSE "None"

IsClean(st) ==
    st.ongoing_gesture_type = Unknown /\ st.swipe_x_max = 0 /\ st.swipe_y_max = 0

\* o: the observer, st: the classifier before the event, ev: the event,
\* px, py: the accumulator after the event.
Observe(o, st, ev, px, py) ==
    IF ev.type \in BeginTypes
    THEN [family |-> FamilyOf(ev.type),
          clean |-> IsClean(st),
          dom |-> "None",
          pinch |-> "None",
          tie |-> FALSE,
          ex5 |-> IF ev.type = "GestureSwipeBegin" /\ ev.finger_count = 3 /\ IsClean(st)
                  THEN 1 ELSE 0,
          ex7 |-> IF ev.type = "GesturePinchBegin" /\ ev.finger_count = 2
                  THEN 1 ELSE 0,
          ended |-> FALSE]
    ELSE IF ev.type \in UpdateTypes /\ ~o.ended /\ o.family = FamilyOf(ev.type)
    THEN [family |-> o.family,
          clean |-> o.clean,
          tie |-> (ev.type = "GestureSwipeUpdate" /\ Abs(px) = Abs(py)
                   /\ Abs(px) > GESTURE_DELTA),
          ended |-> FALSE,
          dom |-> IF ev.type = "GestureSwipeUpdate" /\ DominantDir(px, py) # "None"
                  THEN DominantDir(px, py) ELSE o.dom,
          pinch |-> IF ev.type = "GesturePinchUpdate" /\ PinchSide(ev.scale) # "None"
                    THEN PinchSide(ev.scale) ELSE o.pinch,
          ex5 |-> IF o.ex5 = 1 /\ ev.dx = -2 /\ ev.dy = -15 THEN 2
                  ELSE IF o.ex5 = 2 /\ ev.dx = -1 /\ ev.dy = -MaxDelta THEN 3
                  ELSE 0,
          ex7 |-> IF o.ex7 = 1 /\ ev.scale = ScaleOne + 4 THEN 2
                  ELSE IF o.ex7 = 2 /\ ev.scale = ScaleOne - 1 THEN 3
                  ELSE 0]
    ELSE IF ev.type \in UpdateTypes
    THEN [ObsInit EXCEPT !.family = IF o.ended \/ o.family = "idle"
                                    THEN "idle" ELSE "mixed"]
    ELSE IF ev.type \in EndTypes
    THEN (IF o.ended THEN [ObsInit EXCEPT !.ended = TRUE]
          ELSE [o EXCEPT !.ended = TRUE])
    ELSE o

\* The events since the last Begin are that Begin and Updates of family f.
InGesture(f) == obs.family = f /\ ~obs.ended

\* The classifier of a backend just constructed, with no delegate call made.
FreshInit ==
    [ongoing_gesture_type |-> Unknown, swipe_x_max |-> 0, swipe_y_max |-> 0,
     calls |-> <<>>]

\* Ordinal of each End event handled and of the End behind each callback.
LogInit == [n_ends |-> 0, cb_ends |-> <<>>]

Log(l, ev, made) ==
    LET n == IF ev.type \in EndTypes THEN l.n_ends + 1 ELSE l.n_ends
    IN  [n_ends |-> n,
         cb_ends |-> l.cb_ends \o [i \in 1..Len(made) |-> n]]

\* ------------------------------------------------- poller thread: state
ThreadIds == 1..MaxStarts

\* Option<EventPollerThread>: thread = 0 is None; handle is the Option of the
\* JoinHandle (TRUE = Some); cancelation_token and libinput_event_listener
\* are the channel ends of thread `thread` (see ChannelsHeld).
NoPoller == [thread |-> 0, handle |-> FALSE, cancelation_requested |-> FALSE]

\* A poller thread: where it is in its loop, the cancellation messages and
\* the readiness signals queued in its two channels, and how many times
\* JoinHandle::join was called on it.
NotSpawned == [pc |-> "none", cancel |-> 0, signals |-> 0, joined |-> 0,
               revents |-> "0", cancel_sent |-> FALSE, late_polls |-> 0]

Spawned == {t \in ThreadIds : threads[t].pc # "none"}

\* The thread has left its closure: everything it captured is dropped,
\* cancel_token_receiver included.
Gone(t) == threads[t].pc \in {"exited", "panicked"}

\* The Sender<bool> and Receiver<()> of thread t live in the EventPollerThread
\* that start_polling stored; they are dropped when that value is replaced
\* or when the backend's fields are dropped.
ChannelsHeld(t) == event_poller_thread.thread = t /\ ~input_released

\* ------------------------------------------------------- devices: state
Paths == 1..MaxDevices

\* What create_device meets at a path: a device libinput adds and that has
\* the Gesture capability, one it adds that lacks it, one it fails to add.
DeviceKinds == {"gesture", "plain", "rejected"}

\* The two algorithms slice::binary_search_by has had in std; on a slice
\* that is not sorted by the comparator its result is unspecified.
SearchBuilds == {"halving", "bisect"}

\* Before the first scan nothing of the devices or of the search has been
\* observed.
NoEnv == [kind |-> [p \in Paths |-> "unknown"], binary_search |-> "unknown"]

\* struct Device, as far as the backend reads it: its path.
Device(p) == [path |-> p]

PathsOf(list) == {list[i].path : i \in 1..Len(list)}

DevObsInit == [op |-> "none", prev |-> 0, last |-> 0, found |-> "none",
               lib_calls |-> <<>>, adds_ok |-> TRUE, scans |-> 0]

\* ------------------------------------------------------------------ Init
BridgeObsInit == [tick |-> FALSE, ret |-> "none", consumed |-> 0, read |-> 0]

\* KinesixBackend::new and Input::new
Init ==
    /\ ongoing_gesture_type = Unknown
    /\ swipe_x_max = 0
    /\ swipe_y_max = 0
    /\ event = NoEvent
    /\ calls = <<>>
    /\ obs = ObsInit
    /\ cb_log = LogInit
    /\ fresh = FreshInit
    /\ event_poller_thread = NoPoller
    /\ threads = [t \in ThreadIds |-> NotSpawned]
    /\ main_pc = "ready"
    /\ input_released = FALSE
    /\ poll_obs = [stops |-> 0]
    /\ dev_env = NoEnv
    /\ valid_device_list = <<>>
    /\ active_device = 0
    /\ input_active_device = 0
    /\ path_devices = [p \in Paths |-> 0]
    /\ dev_obs = DevObsInit
    /\ timers = 0
    /\ stream = <<>>
    /\ dispatched = 0
    /\ libinput_queue = <<>>
    /\ fed = <<>>
    /\ bridge_obs = BridgeObsInit
    /\ source_obs = [poller_dispatch |-> FALSE, raced |-> FALSE]

\* --------------------------------------------------------------- actions
\* One call handle_gesture(ev), as made by on_event_ready for each event.
Handle(ev) ==
    \E r \in {handle_gesture(Classifier, ev)} :
        /\ ongoing_gesture_type' = r.ongoing_gesture_type
        /\ swipe_x_max' = r.swipe_x_max
        /\ swipe_y_max' = r.swipe_y_max
        /\ calls' = r.calls
        /\ event' = ev
        /\ obs' = Observe(obs, Classifier, ev, r.swipe_x_max, r.swipe_y_max)

HandleEvent(ev) ==
    /\ Handle(ev)
    /\ UNCHANGED <<cb_log, fresh>>
    /\ UNCHANGED <<pollvars, devvars, bridgevars>>

\* The same call with the End/callback log kept; at most MaxEnds End events.
HandleEventLogged(ev) ==
    /\ ev.type \in EndTypes => cb_log.n_ends < MaxEnds
    /\ Handle(ev)
    /\ cb_log' = Log(cb_log, ev, calls')
    /\ UNCHANGED fresh
    /\ UNCHANGED <<pollvars, devvars, bridgevars>>

Next == \E ev \in Events : HandleEvent(ev)

Spec == Init /\ [][Next]_vars

\* Events of the logged specification: the peaks 0 and MaxDelta only.
OrderEvents ==
    {e \in Events : /\ e.dx \in {0, MaxDelta}
                    /\ e.dy \in {0, -MaxDelta}
                    /\ e.scale \in {ScaleOne - 1, ScaleOne, ScaleOne + 1}}

NextOrder == \E ev \in OrderEvents : HandleEventLogged(ev)

SpecOrder == Init /\ [][NextOrder]_vars

\* The well-formed streams: a Begin arrives only when no gesture is open, an
\* Update or End only inside the gesture of its own family that a Begin
\* opened; events that are no gestures may arrive at any time.
WellFormed(ev) ==
    IF ev.type \in BeginTypes THEN obs.family = "idle" \/ obs.ended
    ELSE IF ev.type \in UpdateTypes \cup EndTypes THEN InGesture(FamilyOf(ev.type))
    ELSE TRUE

NextStream == \E ev \in Events : WellFormed(ev) /\ HandleEvent(ev)

SpecStream == Init /\ [][NextStream]_vars

\* The same call on a well-formed stream, beside a backend as KinesixBackend::new
\* leaves it that is handed the events of the current gesture only: it is
\* made anew at every Begin.
HandleEventFresh(ev) ==
    /\ WellFormed(ev)
    /\ Handle(ev)
    /\ fresh' = handle_gesture(IF ev.type \in BeginTypes THEN FreshInit ELSE fresh, ev)
    /\ UNCHANGED cb_log
    /\ UNCHANGED <<pollvars, devvars, bridgevars>>

NextFresh == \E ev \in OrderEvents : HandleEventFresh(ev)

SpecFresh == Init /\ [][NextFresh]_vars

\* ---------------------------------------------- poller thread: actions
\* start_polling: a new thread with two fresh channels; the EventPollerThread
\* stored before, if any, is overwritten: its JoinHandle is dropped (the
\* thread is detached) and so are its channel ends.
start_polling ==
    /\ main_pc = "ready"
    /\ \E t \in ThreadIds :
         /\ t = Cardinality(Spawned) + 1
         /\ threads' = [u \in ThreadIds |->
                          IF u = t THEN [NotSpawned EXCEPT !.pc = "recv"]
                          ELSE [threads[u] EXCEPT !.signals = 0]]
         /\ event_poller_thread' =
              [thread |-> t, handle |-> TRUE, cancelation_requested |-> FALSE]
    /\ poll_obs' = [stops |-> 0]
    /\ timers' = timers + 1
    /\ UNCHANGED <<main_pc, input_released>>
    /\ UNCHANGED <<stream, dispatched, libinput_queue, fed, bridge_obs, source_obs>>
    /\ UNCHANGED <<classvars, devvars>>

\* stop_polling returns: to its caller, or into Drop for KinesixBackend,
\* after which the fields are dropped (Drop for Input: libinput_unref).
Return(caller) ==
    IF caller = "drop"
    THEN main_pc' = "dropped" /\ input_released' = TRUE
    ELSE main_pc' = "ready" /\ UNCHANGED input_released

\* An expect() fails. When Drop::drop unwinds the fields are dropped as well,
\* unless the build aborts on panic.
Panic(caller) ==
    /\ main_pc' = "panicked"
    /\ IF caller = "drop" THEN input_released' \in BOOLEAN
       ELSE UNCHANGED input_released

\* stop_polling up to the wait in JoinHandle::join.
\* if self.event_poller_thread.is_some() { cancelation_requested = true;
\*   cancelation_token.send(true).expect(..); evt_poller.join() }
stop_polling(caller) ==
    IF event_poller_thread.thread = 0
    THEN /\ Return(caller)
         /\ UNCHANGED <<event_poller_thread, threads>>
    ELSE \E t \in {event_poller_thread.thread} :
         IF Gone(t)
         THEN \* send() on a channel whose Receiver is dropped is an Err
              /\ event_poller_thread' =
                   [event_poller_thread EXCEPT !.cancelation_requested = TRUE]
              /\ Panic(caller)
              /\ UNCHANGED threads
         ELSE IF event_poller_thread.handle
         THEN \* self.handle.take() is Some: handle.join() blocks
              /\ event_poller_thread' =
                   [event_poller_thread EXCEPT !.cancelation_requested = TRUE,
                                               !.handle = FALSE]
              /\ threads' = [threads EXCEPT ![t].cancel = @ + 1,
                                            ![t].joined = @ + 1,
                                            ![t].cancel_sent = TRUE]
              /\ main_pc' = IF caller = "drop" THEN "drop_join" ELSE "join"
              /\ UNCHANGED input_released
         ELSE /\ event_poller_thread' =
                   [event_poller_thread EXCEPT !.cancelation_requested = TRUE]
              /\ threads' = [threads EXCEPT ![t].cancel = @ + 1,
                                            ![t].cancel_sent = TRUE]
              /\ Return(caller)

StopPolling ==
    /\ main_pc = "ready"
    /\ poll_obs.stops < MaxStops
    /\ stop_polling("call")
    /\ poll_obs' = [stops |-> poll_obs.stops + 1]
    /\ UNCHANGED <<classvars, devvars, bridgevars>>

\* EventPollerThread::join: handle.join() returns once the thread is gone,
\* with Err if it panicked.
join ==
    /\ main_pc \in {"join", "drop_join"}
    /\ \E t \in {event_poller_thread.thread} :
         /\ Gone(t)
         /\ IF threads[t].pc = "exited"
            THEN Return(IF main_pc = "drop_join" THEN "drop" ELSE "call")
            ELSE Panic(IF main_pc = "drop_join" THEN "drop" ELSE "call")
    /\ UNCHANGED <<event_poller_thread, threads, poll_obs>>
    /\ UNCHANGED <<classvars, devvars, bridgevars>>

\* impl Drop for KinesixBackend: self.stop_polling(), then the fields.
Drop ==
    /\ main_pc = "ready"
    /\ stop_polling("drop")
    /\ UNCHANGED poll_obs
    /\ UNCHANGED <<classvars, devvars, bridgevars>>

\* Mutant of PollerRecvTimeout: the received token does not break the loop.
PollerRecvTimeoutNoBreak(t) ==
    /\ threads[t].pc = "recv"
    /\ threads' = [threads EXCEPT ![t].pc = "poll",
                                  ![t].cancel = IF @ > 0 THEN @ - 1 ELSE 0]
    /\ UNCHANGED <<event_poller_thread, main_pc, input_released, poll_obs>>
    /\ UNCHANGED <<classvars, devvars, bridgevars>>

\* The top of the poller loop:
\* let cancelation_token = cancel_token_receiver.recv_timeout(1ms);
\* if cancelation_token.is_ok() && cancelation_token.unwrap() { break; }
\* A timeout and a disconnected channel are both Err.
PollerRecvTimeout(t) ==
    /\ threads[t].pc = "recv"
    /\ threads' = [threads EXCEPT ![t] =
                     IF @.cancel > 0 THEN [@ EXCEPT !.pc = "exited", !.cancel = 0]
                     ELSE [@ EXCEPT !.pc = "poll"]]
    /\ UNCHANGED <<event_poller_thread, main_pc, input_released, poll_obs>>
    /\ UNCHANGED <<classvars, devvars, bridgevars>>

\* What poll(&mut poller, 1, 500) can report for the one descriptor, and the
\* revents it leaves in the pollfd: the descriptor is an epoll instance, which
\* is readable or not; a poll() that fails or times out leaves revents 0.
\* A descriptor that was closed is reported as invalid.
PollResults == {"readable", "timeout", "error", "invalid"}

Revents(result) ==
    CASE result = "readable" -> "POLLIN"
      [] result = "invalid" -> "POLLNVAL"
      [] OTHER -> "0"

\* Events that reached the descriptor and were not read from it yet keep it
\* readable; it also becomes readable for the timers of the context itself.
Undelivered == dispatched < Len(stream)

\* Observer: the poll() waits of a thread that returned after stop_polling
\* had sent it the cancellation.
LatePolls(th) ==
    IF th.cancel_sent /\ th.late_polls < MaxLatePolls
    THEN th.late_polls + 1 ELSE th.late_polls

\* Mutant of PollerPoll: the loop goes back to poll() without looking at the
\* cancellation channel when poll() reported nothing.
PollerPollNoRecheck(t) ==
    /\ threads[t].pc = "poll"
    /\ \E result \in PollResults :
         /\ result = "readable" => Undelivered \/ threads[t].signals < MaxSignals
         /\ result # "readable" => ~Undelivered \/ input_released
         /\ result = "invalid" => input_released
         /\ threads' = [threads EXCEPT ![t].revents = Revents(result),
                                       ![t].late_polls = LatePolls(threads[t]),
                                       ![t].pc = IF Revents(result) = "POLLIN"
                                                 THEN "notify" ELSE "poll"]
    /\ UNCHANGED <<event_poller_thread, main_pc, input_released, poll_obs>>
    /\ UNCHANGED <<classvars, devvars, bridgevars>>

\* Mutant of PollerPoll: any revents other than 0 is taken for readiness.
PollerPollAnyRevents(t) ==
    /\ threads[t].pc = "poll"
    /\ \E result \in PollResults :
         /\ result = "readable" => Undelivered \/ threads[t].signals < MaxSignals
         /\ result # "readable" => ~Undelivered \/ input_released
         /\ result = "invalid" => input_released
         /\ threads' = [threads EXCEPT ![t].revents = Revents(result),
                                       ![t].late_polls = LatePolls(threads[t]),
                                       ![t].pc = IF Revents(result) # "0"
                                                 THEN "notify" ELSE "recv"]
    /\ UNCHANGED <<event_poller_thread, main_pc, input_released, poll_obs>>
    /\ UNCHANGED <<classvars, devvars, bridgevars>>

\* poll(&mut poller, 1, 500) returns; if poller.revents == POLLIN { .. }
PollerPoll(t) ==
    /\ threads[t].pc = "poll"
    /\ \E result \in PollResults :
         /\ result = "readable" => Undelivered \/ threads[t].signals < MaxSignals
         /\ result # "readable" => ~Undelivered \/ input_released
         /\ result = "invalid" => input_released
         /\ threads' = [threads EXCEPT ![t].revents = Revents(result),
                                       ![t].late_polls = LatePolls(threads[t]),
                                       ![t].pc = IF Revents(result) = "POLLIN"
                                                 THEN "notify" ELSE "recv"]
    /\ UNCHANGED <<event_poller_thread, main_pc, input_released, poll_obs>>
    /\ UNCHANGED <<classvars, devvars, bridgevars>>

\* libinput_dispatch reads what the descriptor holds and appends it to the
\* event queue of the context. libinput is not thread-safe: a dispatch that
\* runs while the main thread is inside its libinput_get_event loop is a data
\* race on that queue, after which the new events are in the queue or lost.
Dispatched ==
    libinput_queue \o [i \in 1..(Len(stream) - dispatched) |-> dispatched + i]

DispatchOutcomes ==
    IF input_released THEN {libinput_queue}
    ELSE IF main_pc = "drain" THEN {Dispatched, libinput_queue}
    ELSE {Dispatched}

\* libinput_dispatch(handle); libinput_event_listener_sender.send(()).expect(..)
PollerDispatchSend(t) ==
    /\ threads[t].pc = "notify"
    /\ libinput_queue' \in DispatchOutcomes
    /\ dispatched' = IF input_released THEN dispatched ELSE Len(stream)
    /\ source_obs' = [poller_dispatch |-> TRUE,
                      raced |-> source_obs.raced \/ main_pc = "drain"]
    /\ threads' = [threads EXCEPT ![t] =
                     IF ChannelsHeld(t)
                     THEN [@ EXCEPT !.pc = "recv", !.signals = @ + 1]
                     ELSE [@ EXCEPT !.pc = "panicked"]]
    /\ UNCHANGED <<event_poller_thread, main_pc, input_released, poll_obs>>
    /\ UNCHANGED <<timers, stream, fed, bridge_obs>>
    /\ UNCHANGED <<classvars, devvars>>

PollerStep(t) == PollerRecvTimeout(t) \/ PollerPoll(t) \/ PollerDispatchSend(t)

NextPoll ==
    \/ start_polling
    \/ StopPolling
    \/ join
    \/ Drop
    \/ \E t \in ThreadIds : PollerStep(t)

SpecPoll == Init /\ [][NextPoll]_vars

\* The scheduler runs every thread that can take a step, and every poll()
\* and recv_timeout() wait returns.
SpecPollFair ==
    /\ Init /\ [][NextPoll]_vars
    /\ \A t \in ThreadIds : WF_vars(PollerStep(t))
    /\ WF_vars(join)

\* ------------------------------------------------------ bridge: actions
\* The events the device sends in the bridge specifications: updates that
\* move the x peak.
BridgeEvents == {Ev("GestureSwipeUpdate", 2, -MaxDelta, 0, ScaleOne, FALSE)}

\* The kernel makes an event of the device available on the descriptor.
Arrive ==
    /\ Len(stream) < MaxEvents
    /\ ~input_released
    /\ \E ev \in BridgeEvents : stream' = Append(stream, ev)
    /\ UNCHANGED <<timers, dispatched, libinput_queue, fed, bridge_obs, source_obs>>
    /\ UNCHANGED <<classvars, pollvars, devvars>>

\* on_event_ready returns r without having called libinput_get_event.
BridgeReturn(r) ==
    /\ bridge_obs' = [tick |-> ~bridge_obs.tick, ret |-> r, consumed |-> 0,
                      read |-> 0]
    /\ UNCHANGED <<threads, main_pc>>

\* try_recv().is_ok(): one signal is taken and the libinput_get_event loop
\* is entered.
BridgeReceive(t) ==
    /\ threads' = [threads EXCEPT ![t].signals = @ - 1]
    /\ main_pc' = "drain"
    /\ bridge_obs' = [tick |-> ~bridge_obs.tick, ret |-> "running",
                      consumed |-> 1, read |-> 0]

\* Mutant of BridgePolling: cancelation_requested is not looked at.
BridgePollingNoCancel ==
    \E t \in {event_poller_thread.thread} :
        IF threads[t].signals > 0 THEN BridgeReceive(t)
        ELSE BridgeReturn("continue")

\* The body of if self_.event_poller_thread.is_some() { .. }
BridgePolling ==
    IF event_poller_thread.cancelation_requested
    THEN BridgeReturn("stop")
    ELSE \E t \in {event_poller_thread.thread} :
           IF threads[t].signals > 0 THEN BridgeReceive(t)
           ELSE BridgeReturn("continue")

\* Mutant of on_event_ready: event_poller_thread.is_some() is not asked.
on_event_ready_unguarded ==
    IF event_poller_thread.thread = 0
    THEN /\ main_pc' = "drain"
         /\ bridge_obs' = [tick |-> ~bridge_obs.tick, ret |-> "running",
                           consumed |-> 0, read |-> 0]
         /\ UNCHANGED threads
    ELSE BridgePolling

\* unsafe extern "C" fn on_event_ready(user_data) -> gboolean, up to its
\* return or to its first libinput_get_event.
on_event_ready ==
    IF event_poller_thread.thread = 0
    THEN BridgeReturn("continue")
    ELSE BridgePolling

\* The GLib main loop runs a timeout source registered by start_polling; a
\* source whose callback returns 0 is removed.
Tick ==
    /\ main_pc = "ready"
    /\ timers > 0
    /\ on_event_ready
    /\ timers' = IF bridge_obs'.ret = "stop" THEN timers - 1 ELSE timers
    /\ UNCHANGED <<event_poller_thread, input_released, poll_obs>>
    /\ UNCHANGED <<stream, dispatched, libinput_queue, fed, source_obs>>
    /\ UNCHANGED <<classvars, devvars>>

\* The source is not removed when the backend is dropped: user_data then
\* points to freed memory, and what the callback reads there is not
\* determined.
TickFreed ==
    /\ main_pc = "dropped"
    /\ timers > 0
    /\ \E r \in {"stop", "continue"} :
         /\ bridge_obs' = [tick |-> ~bridge_obs.tick, ret |-> r, consumed |-> 0,
                           read |-> 0]
         /\ timers' = IF r = "stop" THEN timers - 1 ELSE timers
    /\ UNCHANGED <<stream, dispatched, libinput_queue, fed, source_obs>>
    /\ UNCHANGED <<classvars, pollvars, devvars>>

\* One round of the loop in on_event_ready: libinput_get_event, then
\* handle_gesture and libinput_event_destroy, or break and return 1.
BridgeGetEvent ==
    /\ main_pc = "drain"
    /\ IF libinput_queue # <<>>
       THEN /\ Handle(stream[Head(libinput_queue)])
            /\ libinput_queue' = Tail(libinput_queue)
            /\ fed' = Append(fed, Head(libinput_queue))
            /\ bridge_obs' = [bridge_obs EXCEPT !.read = @ + 1]
            /\ UNCHANGED main_pc
       ELSE /\ main_pc' = "ready"
            /\ bridge_obs' = [bridge_obs EXCEPT !.ret = "continue"]
            /\ UNCHANGED <<libinput_queue, fed>>
            /\ UNCHANGED <<ongoing_gesture_type, swipe_x_max, swipe_y_max,
                           event, calls, obs>>
    /\ UNCHANGED <<cb_log, fresh>>
    /\ UNCHANGED <<event_poller_thread, threads, input_released, poll_obs>>
    /\ UNCHANGED <<timers, stream, dispatched, source_obs>>
    /\ UNCHANGED devvars

\* The main loop and the poller threads, with no input from the device.
NextTick ==
    \/ start_polling
    \/ StopPolling
    \/ join
    \/ Drop
    \/ \E t \in ThreadIds : PollerStep(t)
    \/ Tick
    \/ TickFreed
    \/ BridgeGetEvent

SpecTick == Init /\ [][NextTick]_vars

NextBridge ==
    \/ start_polling
    \/ StopPolling
    \/ join
    \/ Drop
    \/ \E t \in ThreadIds : PollerStep(t)
    \/ Arrive
    \/ Tick
    \/ TickFreed
    \/ BridgeGetEvent

SpecBridge == Init /\ [][NextBridge]_vars

\* One start_polling and no stop: the program of main.rs once its window is
\* up. The scheduler runs the poller thread, every poll() and recv_timeout()
\* wait returns, and the main loop keeps running the timeout source and the
\* callback it is in.
StartOnce == Spawned = {} /\ start_polling

NextLive ==
    \/ StartOnce
    \/ \E t \in ThreadIds : PollerStep(t)
    \/ Arrive
    \/ Tick
    \/ BridgeGetEvent

SpecLive ==
    /\ Init /\ [][NextLive]_vars
    /\ \A t \in ThreadIds : WF_vars(PollerStep(t))
    /\ WF_vars(Tick)
    /\ WF_vars(BridgeGetEvent)

\* One start_polling, then stop_polling, on a backend that stays alive.
NextStop ==
    \/ StartOnce
    \/ StopPolling
    \/ join
    \/ \E t \in ThreadIds : PollerStep(t)
    \/ Arrive
    \/ Tick
    \/ BridgeGetEvent

SpecStop == Init /\ [][NextStop]_vars

\* on_event_ready called on a backend by hand, as nothing but the timeout
\* source of start_polling calls it in the program.
CallOnEventReady ==
    /\ main_pc = "ready"
    /\ on_event_ready
    /\ UNCHANGED <<event_poller_thread, input_released, poll_obs>>
    /\ UNCHANGED <<timers, stream, dispatched, libinput_queue, fed, source_obs>>
    /\ UNCHANGED <<classvars, devvars>>

NextCall ==
    \/ StartOnce
    \/ \E t \in ThreadIds : PollerStep(t)
    \/ Arrive
    \/ CallOnEventReady
    \/ BridgeGetEvent

SpecCall == Init /\ [][NextCall]_vars

\* ----------------------------------------------------- devices: actions
\* Device::new(path, name, product_id, vendor_id): Some(device) for a path
\* that exists and is a character device, which every path read by the scan
\* is. The Option is a sequence of length 0 or 1.
DeviceNew(p) == <<Device(p)>>

\* Mutant of create_device: the Gesture capability is not asked for.
create_device_any(env, p) ==
    IF env.kind[p] \in {"gesture", "plain"}
    THEN [device |-> DeviceNew(p), added |-> 1]
    ELSE [device |-> <<>>, added |-> 0]

\* create_device: libinput_path_add_device; a device with the Gesture
\* capability is returned and stays added, one without is removed again.
create_device(env, p) ==
    IF env.kind[p] = "gesture"
    THEN [device |-> DeviceNew(p), added |-> 1]
    ELSE [device |-> <<>>, added |-> 0]

\* The loop over fs::read_dir: order[i] is the i-th entry read.
RECURSIVE ScanList(_, _, _)
ScanList(env, order, n) ==
    IF n = 0 THEN <<>>
    ELSE ScanList(env, order, n - 1) \o create_device(env, order[n]).device

\* The machines a scan can meet; the std of the build does not change.
ScanEnvs ==
    [kind : [Paths -> DeviceKinds],
     binary_search : IF dev_env.binary_search = "unknown" THEN SearchBuilds
                     ELSE {dev_env.binary_search}]

\* get_valid_device_list: scans when the list is empty, in the order
\* read_dir yields the entries, and returns a copy of the list.
get_valid_device_list ==
    /\ main_pc = "ready"
    /\ IF valid_device_list = <<>>
       THEN \E env \in ScanEnvs, order \in Permutations(Paths) :
              /\ dev_obs.scans < MaxScans
              /\ dev_env' = env
              /\ valid_device_list' = ScanList(env, order, MaxDevices)
              /\ path_devices' = [p \in Paths |->
                                    path_devices[p] + create_device(env, p).added]
              /\ dev_obs' = [dev_obs EXCEPT !.op = "list",
                                            !.lib_calls = <<"scan">>,
                                            !.scans = @ + 1]
       ELSE /\ UNCHANGED <<dev_env, valid_device_list, path_devices>>
            /\ dev_obs' = [dev_obs EXCEPT !.op = "list", !.lib_calls = <<>>]
    /\ UNCHANGED <<active_device, input_active_device>>
    /\ UNCHANGED <<classvars, pollvars, bridgevars>>

\* String::cmp on two paths
PathCmp(a, b) == IF a < b THEN "Less" ELSE IF a > b THEN "Greater" ELSE "Equal"

\* The closure of set_active_device: |probe| device.path.cmp(&probe.path)
ProbeCmp(device, probe) == PathCmp(device.path, probe.path)

\* slice::binary_search_by, std 1.51 and before and 1.82 and after; the
\* result is the index of the Ok (from 1) and 0 for an Err.
RECURSIVE SearchHalving(_, _, _, _)
SearchHalving(list, device, base, size) ==
    IF size = 0 THEN 0
    ELSE IF size > 1
    THEN LET half == size \div 2
             mid == base + half
         IN  SearchHalving(list, device,
                 IF ProbeCmp(device, list[mid + 1]) = "Greater" THEN base ELSE mid,
                 size - half)
    ELSE IF ProbeCmp(device, list[base + 1]) = "Equal" THEN base + 1 ELSE 0

\* slice::binary_search_by, std 1.52 to 1.81
RECURSIVE SearchBisect(_, _, _, _)
SearchBisect(list, device, left, right) ==
    IF left < right
    THEN LET mid == left + ((right - left) \div 2)
             cmp == ProbeCmp(device, list[mid + 1])
         IN  IF cmp = "Less" THEN SearchBisect(list, device, mid + 1, right)
             ELSE IF cmp = "Greater" THEN SearchBisect(list, device, left, mid)
             ELSE mid + 1
    ELSE 0

\* Mutant of binary_search_by: the first element is always the answer.
SearchFirst(list, device) == IF list = <<>> THEN 0 ELSE 1

\* self.valid_device_list.binary_search_by(|probe| device.path.cmp(&probe.path))
binary_search_by(list, device) ==
    IF dev_env.binary_search = "halving"
    THEN SearchHalving(list, device, 0, Len(list))
    ELSE SearchBisect(list, device, 0, Len(list))

\* Mutant of AlreadyActive: the early return is missing.
AlreadyActiveNever(device) == FALSE

\* if !self.active_device.is_null() { if (*self.active_device).path == device.path { return; } }
AlreadyActive(device) ==
    /\ active_device # 0
    /\ valid_device_list[active_device].path = device.path

\* set_active_device(device). add_ok: libinput_path_add_device returns a
\* device. When it returns null, libinput_device_ref(null) is called, which
\* is undefined: the call crashes or goes on.
set_active_device(device) ==
    /\ main_pc = "ready"
    /\ IF AlreadyActive(device)
       THEN /\ UNCHANGED <<active_device, input_active_device, path_devices, main_pc>>
            /\ dev_obs' = [op |-> "set", prev |-> dev_obs.last, last |-> device.path,
                           found |-> "active", lib_calls |-> <<>>,
                           adds_ok |-> dev_obs.adds_ok, scans |-> dev_obs.scans]
       ELSE \E idx \in {binary_search_by(valid_device_list, device)} :
            IF idx = 0
            THEN /\ UNCHANGED <<active_device, input_active_device, path_devices, main_pc>>
                 /\ dev_obs' = [op |-> "set", prev |-> dev_obs.last, last |-> device.path,
                                found |-> "no", lib_calls |-> <<>>,
                                adds_ok |-> dev_obs.adds_ok, scans |-> dev_obs.scans]
            ELSE \E add_ok \in BOOLEAN :
                 LET removed == IF input_active_device # 0
                                THEN [path_devices EXCEPT ![input_active_device] = @ - 1]
                                ELSE path_devices
                     unbind == IF input_active_device # 0
                               THEN <<"remove", "unref">> ELSE <<>>
                 IN  /\ path_devices' = IF add_ok
                                        THEN [removed EXCEPT ![device.path] = @ + 1]
                                        ELSE removed
                     /\ input_active_device' = IF add_ok THEN device.path ELSE 0
                     /\ active_device' = IF add_ok THEN idx ELSE active_device
                     /\ main_pc' \in IF add_ok THEN {"ready"} ELSE {"ready", "crashed"}
                     /\ dev_obs' = [op |-> "set", prev |-> dev_obs.last,
                                    last |-> device.path, found |-> "yes",
                                    lib_calls |-> unbind \o <<"add", "ref">>,
                                    adds_ok |-> dev_obs.adds_ok /\ add_ok,
                                    scans |-> dev_obs.scans]
    /\ UNCHANGED <<dev_env, valid_device_list>>
    /\ UNCHANGED <<event_poller_thread, threads, input_released, poll_obs>>
    /\ UNCHANGED <<classvars, bridgevars>>

NextDev ==
    \/ get_valid_device_list
    \/ \E p \in Paths : set_active_device(Device(p))

SpecDev == Init /\ [][NextDev]_vars

\* ================================================================ claims

\* C1: a swipe-End or pinch-End whose cancelled flag is false invokes exactly
\* one callback when the classification is Swipe(d) or Pinch(t), with that d
\* or t and the finger count of the End event itself, and none when the
\* classification is Unknown.
C1_EndEmitsClassification ==
    [][(event'.type \in EndTypes /\ ~event'.cancelled) =>
         /\ ongoing_gesture_type.kind = "Swipe" =>
              calls' = <<[cb |-> "swipe", arg |-> ongoing_gesture_type.arg,
                          finger_count |-> event'.finger_count]>>
         /\ ongoing_gesture_type.kind = "Pinch" =>
              calls' = <<[cb |-> "pinch", arg |-> ongoing_gesture_type.arg,
                          finger_count |-> event'.finger_count]>>
         /\ ongoing_gesture_type.kind = "Unknown" => calls' = <<>>]_vars

\* A non-cancelled pinch End carrying 3 fingers closed a pinch gesture
\* classified PinchOut and reported (PinchOut, 3).
C1_Witness ==
    /\ event.type = "GesturePinchEnd" /\ ~event.cancelled /\ event.finger_count = 3
    /\ obs.ended /\ obs.family = "pinch" /\ obs.pinch = "PinchOut"
    /\ calls = <<[cb |-> "pinch", arg |-> "PinchOut", finger_count |-> 3]>>

\* C2: handling an End event whose cancelled flag is true invokes neither
\* the swipe nor the pinch callback.
C2_CancelledEndEmitsNothing ==
    (event.type \in EndTypes /\ event.cancelled) => calls = <<>>

\* A cancelled swipe End handled while a direction was classified.
C2_Witness ==
    /\ event.type = "GestureSwipeEnd" /\ event.cancelled
    /\ obs.ended /\ obs.family = "swipe" /\ obs.dom = "SwipeLeft"
    /\ calls = <<>>

\* C3: after an End event whose cancelled flag is true the classification is
\* Unknown and the accumulator is (0,0), whatever Updates preceded it (stated
\* for the gestures that a Begin opened in the initial state and that hold
\* events of one family).
C3_CancelledEndResets ==
    (/\ event.type \in EndTypes /\ event.cancelled
     /\ obs.ended /\ obs.family \in {"swipe", "pinch"} /\ obs.clean) =>
        /\ ongoing_gesture_type = Unknown
        /\ swipe_x_max = 0
        /\ swipe_y_max = 0

\* C4: after an End event whose cancelled flag is false the classification
\* is Unknown and the accumulator is (0,0), callback or not.
C4_FinishedEndResets ==
    (event.type \in EndTypes /\ ~event.cancelled) =>
        /\ ongoing_gesture_type = Unknown
        /\ swipe_x_max = 0
        /\ swipe_y_max = 0

\* A non-cancelled swipe End that reported a direction (so the accumulator
\* was beyond the threshold before it) and left the initial state.
C4_Witness ==
    /\ event.type = "GestureSwipeEnd" /\ ~event.cancelled
    /\ obs.ended /\ obs.family = "swipe" /\ obs.clean /\ obs.dom = "SwipeDown"
    /\ Len(calls) = 1
    /\ ongoing_gesture_type = Unknown /\ swipe_x_max = 0 /\ swipe_y_max = 0

\* A non-cancelled swipe End closing a swipe that began in the initial state
\* and held only swipe Updates.
CleanSwipeEnd ==
    /\ event'.type = "GestureSwipeEnd" /\ ~event'.cancelled
    /\ InGesture("swipe") /\ obs.clean

SwipeCall(d, fc) == <<[cb |-> "swipe", arg |-> d, finger_count |-> fc]>>

\* C5 as claimed: such a swipe reports the direction of the strictly dominant
\* peak exactly when that peak exceeds the threshold, with the End's finger
\* count, and nothing otherwise; Begin(3), Update(-2,-15), Update(-1,-20),
\* End reports (Up, 3).
C5_DominantPeakExactly ==
    [][CleanSwipeEnd =>
         /\ calls' = IF DominantDir(swipe_x_max, swipe_y_max) # "None"
                     THEN SwipeCall(DominantDir(swipe_x_max, swipe_y_max),
                                    event'.finger_count)
                     ELSE <<>>
         /\ obs.ex5 = 3 => calls' = SwipeCall("SwipeUp", event'.finger_count)]_vars

\* C5 amended: the direction of the strictly dominant peak is reported when
\* that peak exceeds the threshold; nothing is reported when no peak exceeds
\* it; when the two peaks are equal in magnitude beyond the threshold, the End
\* reports the direction set by the last Update that left one peak strictly
\* dominant beyond the threshold, and nothing when there was none.
C5_DominantPeakOrLastSet ==
    [][CleanSwipeEnd =>
         /\ DominantDir(swipe_x_max, swipe_y_max) # "None" =>
              calls' = SwipeCall(DominantDir(swipe_x_max, swipe_y_max),
                                 event'.finger_count)
         /\ (Abs(swipe_x_max) <= GESTURE_DELTA /\ Abs(swipe_y_max) <= GESTURE_DELTA) =>
              calls' = <<>>
         /\ (Abs(swipe_x_max) = Abs(swipe_y_max) /\ Abs(swipe_x_max) > GESTURE_DELTA) =>
              calls' = IF obs.dom = "None" THEN <<>>
                       ELSE SwipeCall(obs.dom, event'.finger_count)
         /\ obs.ex5 = 3 => calls' = SwipeCall("SwipeUp", event'.finger_count)]_vars

\* Begin(3), Update(-2,-15), Update(-1,-20), End(3) was handled and reported.
C5_Witness ==
    /\ event.type = "GestureSwipeEnd" /\ ~event.cancelled /\ event.finger_count = 3
    /\ obs.ended /\ obs.family = "swipe" /\ obs.clean /\ obs.ex5 = 3
    /\ calls = SwipeCall("SwipeUp", 3)

\* C6: a swipe Update replaces x_max by dx iff |dx| > |x_max| (same for y),
\* then classifies from the updated peaks: |y_max| > |x_max|: Up when
\* y_max < -10, Down when y_max > 10; |x_max| > |y_max|: Left when
\* x_max < -10, Right when x_max > 10; in every other case the classification
\* is left as it was.
C6_SwipeUpdateRule ==
    [][event'.type = "GestureSwipeUpdate" =>
         /\ swipe_x_max' = IF Abs(event'.dx) > Abs(swipe_x_max)
                           THEN event'.dx ELSE swipe_x_max
         /\ swipe_y_max' = IF Abs(event'.dy) > Abs(swipe_y_max)
                           THEN event'.dy ELSE swipe_y_max
         /\ ongoing_gesture_type' =
              CASE Abs(swipe_y_max') > Abs(swipe_x_max') /\ swipe_y_max' < -GESTURE_DELTA
                     -> [kind |-> "Swipe", arg |-> "SwipeUp"]
                [] Abs(swipe_y_max') > Abs(swipe_x_max') /\ swipe_y_max' > GESTURE_DELTA
                     -> [kind |-> "Swipe", arg |-> "SwipeDown"]
                [] Abs(swipe_x_max') > Abs(swipe_y_max') /\ swipe_x_max' < -GESTURE_DELTA
                     -> [kind |-> "Swipe", arg |-> "SwipeLeft"]
                [] Abs(swipe_x_max') > Abs(swipe_y_max') /\ swipe_x_max' > GESTURE_DELTA
                     -> [kind |-> "Swipe", arg |-> "SwipeRight"]
                [] OTHER -> ongoing_gesture_type]_vars

\* A swipe Update whose sample has the magnitude of the peak and the other
\* sign: the peak was kept, the peaks are tied, the direction stayed.
C6_Witness ==
    /\ event.type = "GestureSwipeUpdate"
    /\ event.dx = -swipe_x_max /\ swipe_x_max > GESTURE_DELTA
    /\ Abs(swipe_y_max) = Abs(swipe_x_max)
    /\ InGesture("swipe") /\ obs.clean
    /\ ongoing_gesture_type = [kind |-> "Swipe", arg |-> "SwipeRight"]

\* C7: a pinch Update sets PinchOut when scale > 1.0, PinchIn when
\* scale < 1.0 and leaves the classification when scale = 1.0; so a
\* non-cancelled pinch End reports the type of the last Update of the gesture
\* whose scale differs from 1.0; Begin(2), Update(1.4), Update(0.9), End
\* reports (PinchIn, 2).
C7_PinchUpdateRule ==
    [][/\ event'.type = "GesturePinchUpdate" =>
            ongoing_gesture_type' =
              CASE event'.scale > ScaleOne -> [kind |-> "Pinch", arg |-> "PinchOut"]
                [] event'.scale < ScaleOne -> [kind |-> "Pinch", arg |-> "PinchIn"]
                [] OTHER -> ongoing_gesture_type
       /\ (/\ event'.type = "GesturePinchEnd" /\ ~event'.cancelled
           /\ InGesture("pinch") /\ obs.pinch # "None") =>
            calls' = <<[cb |-> "pinch", arg |-> obs.pinch,
                        finger_count |-> event'.finger_count]>>
       /\ (/\ event'.type = "GesturePinchEnd" /\ ~event'.cancelled
           /\ InGesture("pinch") /\ obs.ex7 = 3) =>
            calls' = <<[cb |-> "pinch", arg |-> "PinchIn",
                        finger_count |-> event'.finger_count]>>]_vars

\* Begin(2), Update(1.4), Update(0.9), End(2) was handled and reported.
C7_Witness ==
    /\ event.type = "GesturePinchEnd" /\ ~event.cancelled /\ event.finger_count = 2
    /\ obs.ended /\ obs.family = "pinch" /\ obs.ex7 = 3
    /\ calls = <<[cb |-> "pinch", arg |-> "PinchIn", finger_count |-> 2]>>

\* C8: once a swipe Update of the gesture has set a direction, a later swipe
\* Update of the same gesture whose dx and dy are both smaller in magnitude
\* than the peaks leaves the classification as it was.
C8_SmallerSampleKeepsDirection ==
    [][(/\ event'.type = "GestureSwipeUpdate"
        /\ InGesture("swipe") /\ obs.dom # "None"
        /\ Abs(event'.dx) < Abs(swipe_x_max)
        /\ Abs(event'.dy) < Abs(swipe_y_max)) =>
         ongoing_gesture_type' = ongoing_gesture_type]_vars

\* A swipe Update with both deltas below the peaks, in a gesture whose peaks
\* were built by its own Updates and in which a direction had been set.
C8_Witness ==
    /\ event.type = "GestureSwipeUpdate"
    /\ InGesture("swipe") /\ obs.clean /\ obs.dom = "SwipeUp"
    /\ Abs(event.dx) < Abs(swipe_x_max)
    /\ Abs(event.dy) < Abs(swipe_y_max)
    /\ event.dy > 0
    /\ ongoing_gesture_type = [kind |-> "Swipe", arg |-> "SwipeUp"]

\* C9: over swipe Updates |swipe_x_max| and |swipe_y_max| never decrease.
C9_PeaksNeverDecrease ==
    [][event'.type = "GestureSwipeUpdate" =>
         /\ Abs(swipe_x_max') >= Abs(swipe_x_max)
         /\ Abs(swipe_y_max') >= Abs(swipe_y_max)]_vars

\* A swipe Update whose deltas are below both peaks was handled.
C9_Witness ==
    /\ event.type = "GestureSwipeUpdate"
    /\ InGesture("swipe")
    /\ Abs(event.dx) < Abs(swipe_x_max)
    /\ Abs(event.dy) < Abs(swipe_y_max)
    /\ event.dx # 0 /\ event.dy # 0

\* C10: no callback is invoked while a Begin, an Update or a non-gesture
\* event is handled; an End invokes at most one; and the callbacks occur in
\* the order of the End events behind them (the End ordinals of the logged
\* callbacks increase strictly, and a callback just made belongs to the End
\* just handled).
C10_OneDecisionPerEndInOrder ==
    /\ event.type \notin EndTypes => calls = <<>>
    /\ Len(calls) <= 1
    /\ Len(cb_log.cb_ends) <= cb_log.n_ends
    /\ \A i \in 1..Len(cb_log.cb_ends) :
         /\ cb_log.cb_ends[i] \in 1..cb_log.n_ends
         /\ \A j \in 1..Len(cb_log.cb_ends) :
              i < j => cb_log.cb_ends[i] < cb_log.cb_ends[j]
    /\ calls # <<>> =>
         /\ cb_log.cb_ends # <<>>
         /\ cb_log.cb_ends[Len(cb_log.cb_ends)] = cb_log.n_ends

\* Three End events were handled; the first and the third made a callback.
C10_Witness ==
    /\ cb_log.n_ends = 3
    /\ cb_log.cb_ends = <<1, 3>>
    /\ event.type \in EndTypes /\ Len(calls) = 1

\* C11: in a stream where every gesture is Begin, Updates, End of one family
\* and gestures do not overlap (cancelled gestures included), a swipe End
\* invokes no callback but the swipe callback and a pinch End no callback but
\* the pinch callback.
C11_EndCallsOwnFamily ==
    /\ event.type = "GestureSwipeEnd" =>
         \A i \in 1..Len(calls) : calls[i].cb = "swipe"
    /\ event.type = "GesturePinchEnd" =>
         \A i \in 1..Len(calls) : calls[i].cb = "pinch"

\* C12: an Update handled while no gesture is open (no Begin since
\* construction or since the last End) changes neither the classification
\* nor the accumulator.
C12_IdleUpdateIgnored ==
    [][(event'.type \in UpdateTypes /\ (obs.family = "idle" \/ obs.ended)) =>
         UNCHANGED <<ongoing_gesture_type, swipe_x_max, swipe_y_max>>]_vars

\* C13: after start_polling, two stop_polling calls in succession complete
\* without a panic, the poller thread is joined once only, and stop_polling
\* on a backend that never started polling changes nothing.
C13_StopTwiceCompletes ==
    /\ (Spawned # {} /\ poll_obs.stops = 2) => main_pc # "panicked"
    /\ \A t \in ThreadIds : threads[t].joined <= 1
    /\ (Spawned = {} /\ main_pc = "ready") => event_poller_thread = NoPoller

\* C14: after a single start_polling, a stop_polling call made while the
\* poller thread runs (by the caller or by Drop) eventually returns, under
\* fair scheduling, and once it has returned the thread has left its loop
\* and has been joined, once.
C14_StopReturnsJoined ==
    /\ (Cardinality(Spawned) = 1 /\ main_pc \in {"join", "drop_join"})
         ~> (/\ main_pc \in {"ready", "dropped"}
             /\ threads[1].pc = "exited" /\ threads[1].joined = 1)
    /\ [](( /\ Cardinality(Spawned) = 1
            /\ \/ main_pc = "ready" /\ poll_obs.stops >= 1
               \/ main_pc = "dropped")
          => (threads[1].pc = "exited" /\ threads[1].joined = 1))

\* One start_polling, then one stop_polling that has returned: the
\* cancellation was requested and the thread is gone and joined.
C14_Witness ==
    /\ Cardinality(Spawned) = 1 /\ main_pc = "ready" /\ poll_obs.stops = 1
    /\ event_poller_thread.cancelation_requested /\ ~event_poller_thread.handle
    /\ threads[1].pc = "exited" /\ threads[1].joined = 1

\* C15: when the Event Source handle is released (libinput_unref in Drop for
\* Input), every poller thread the backend spawned has exited.
C15_ThreadsGoneBeforeRelease ==
    input_released => \A t \in Spawned : Gone(t)

\* The state of the backend's device fields and of the libinput context.
DeviceState == <<valid_device_list, active_device, input_active_device, path_devices>>

\* C16: right after set_active_device(A) then set_active_device(B), with A
\* and B distinct devices of the valid device list and every add accepted by
\* libinput, the active handle is the one added for B's path and the
\* active-device reference points at B.
C16_SecondDeviceActive ==
    (/\ dev_obs.op = "set" /\ main_pc = "ready" /\ dev_obs.adds_ok
     /\ dev_obs.prev # 0 /\ dev_obs.last # dev_obs.prev
     /\ {dev_obs.prev, dev_obs.last} \subseteq PathsOf(valid_device_list)) =>
        /\ input_active_device = dev_obs.last
        /\ active_device # 0
        /\ valid_device_list[active_device].path = dev_obs.last

RECURSIVE BoundUpTo(_)
BoundUpTo(n) == IF n = 0 THEN 0 ELSE path_devices[n] + BoundUpTo(n - 1)

\* C17: at most one device is added to the libinput context, in every
\* reachable state.
C17_AtMostOneBound == BoundUpTo(MaxDevices) <= 1

\* C18: set_active_device(d) treats d as absent exactly when no device of
\* the valid device list has d's path.
C18_ListedDeviceFound ==
    dev_obs.op = "set" =>
        (dev_obs.found = "no" <=> dev_obs.last \notin PathsOf(valid_device_list))

\* C19: set_active_device with the device the active-device reference points
\* at changes neither the active handle nor the reference nor the devices
\* added to the context, and makes no libinput call.
C19_SameDeviceNoOp ==
    [][(/\ dev_obs'.op = "set"
        /\ active_device # 0
        /\ valid_device_list[active_device].path = dev_obs'.last) =>
          /\ UNCHANGED DeviceState
          /\ dev_obs'.lib_calls = <<>>]_vars

\* The same device was given twice; it is bound and nothing was called.
C19_Witness ==
    /\ dev_obs.op = "set" /\ dev_obs.found = "active"
    /\ dev_obs.prev = dev_obs.last
    /\ input_active_device = dev_obs.last
    /\ valid_device_list[active_device].path = dev_obs.last
    /\ dev_obs.lib_calls = <<>>

\* C20: set_active_device with a device whose path is not in the valid
\* device list changes neither the active handle nor the reference nor the
\* devices added to the context, and makes no libinput call.
C20_UnlistedDeviceIgnored ==
    [][(/\ dev_obs'.op = "set"
        /\ dev_obs'.last \notin PathsOf(valid_device_list)) =>
          /\ UNCHANGED DeviceState
          /\ dev_obs'.lib_calls = <<>>]_vars

\* A device is active and bound, and a call with an unlisted path was made.
C20_Witness ==
    /\ dev_obs.op = "set" /\ dev_obs.found = "no"
    /\ dev_obs.last \notin PathsOf(valid_device_list)
    /\ active_device # 0
    /\ input_active_device = valid_device_list[active_device].path
    /\ dev_obs.lib_calls = <<>>

\* C21: on one backend the directory scan of get_valid_device_list runs at
\* most once, whatever the first scan found.
C21_ScanAtMostOnce == dev_obs.scans <= 1

\* The paths at which the last scan met a device that libinput adds and that
\* has the Gesture capability.
GesturePaths == {p \in Paths : dev_env.kind[p] = "gesture"}

BridgeReturns ==
    /\ bridge_obs'.ret \in {"stop", "continue"}
    /\ bridge_obs'.tick # bridge_obs.tick \/ bridge_obs.ret = "running"

\* C23: every invocation of on_event_ready returns "continue", unless the
\* backend has been torn down, and then it returns "stop".
C23_ContinueUnlessTornDown ==
    [][BridgeReturns =>
         (bridge_obs'.ret = "stop" <=> main_pc = "dropped")]_vars

\* C24: an invocation of on_event_ready on a backend that holds no poller
\* thread (start_polling was not called) returns "continue" and does no
\* work: it reads no event and leaves the classification, the accumulator,
\* the event queue and the delegate untouched.
C24_IdleBridgeNoWork ==
    [][(bridge_obs'.tick # bridge_obs.tick /\ event_poller_thread.thread = 0) =>
         /\ bridge_obs'.ret = "continue"
         /\ bridge_obs'.read = 0
         /\ main_pc' = main_pc
         /\ UNCHANGED <<ongoing_gesture_type, swipe_x_max, swipe_y_max>>
         /\ UNCHANGED <<libinput_queue, fed, calls, event>>]_vars

\* An idle invocation was made while an event waited on the descriptor.
C24_Witness ==
    /\ event_poller_thread = NoPoller
    /\ bridge_obs.tick
    /\ bridge_obs.ret = "continue"
    /\ Len(stream) > 0
    /\ fed = <<>>

\* C25: an invocation of on_event_ready that finds a readiness signal takes
\* exactly one signal and, by the time it returns, has fed every event read
\* from the descriptor to handle_gesture, in arrival order and each once; an
\* invocation that finds no signal reads no event.
C25_DrainFeedsAllOnce ==
    [][/\ (bridge_obs'.tick # bridge_obs.tick /\ bridge_obs'.ret = "running") =>
            \E t \in {event_poller_thread.thread} :
                threads'[t].signals = threads[t].signals - 1
       /\ (bridge_obs.ret = "running" /\ bridge_obs'.ret = "continue") =>
            /\ bridge_obs.consumed = 1
            /\ fed' = [i \in 1..dispatched |-> i]
       /\ (bridge_obs'.tick # bridge_obs.tick /\ bridge_obs'.ret # "running") =>
            /\ bridge_obs'.consumed = 0
            /\ fed' = fed]_vars

\* C26: a poller thread does nothing with the libinput context but wait on
\* its descriptor: libinput_dispatch is never called by a poller thread.
C26_PollerOnlyWaits == ~source_obs.poller_dispatch

\* C27: the readiness channel never holds more than one pending signal.
C27_SingleSlot == \A t \in ThreadIds : threads[t].signals <= 1

Polling ==
    /\ event_poller_thread.thread # 0
    /\ ~event_poller_thread.cancelation_requested

FedEvents == {fed[k] : k \in 1..Len(fed)}

\* C28: while polling is started and not stopped and the main loop keeps
\* invoking on_event_ready, every event that reached the descriptor is
\* eventually handed to handle_gesture.
C28_ReadableEventuallyFed ==
    \A i \in 1..MaxEvents :
        (Len(stream) >= i) ~> (i \in FedEvents \/ ~Polling)

\* C29: in every iteration of a poller thread send(()) is executed if and
\* only if the poll() of that iteration left revents equal to POLLIN: a
\* timeout, a failed poll() and any other revents send nothing.
C29_SendIffReadable ==
    [][\A t \in ThreadIds :
         /\ (threads[t].pc = "poll" /\ threads'[t].pc # "poll") =>
              /\ threads'[t].pc \in {"notify", "recv"}
              /\ threads'[t].pc = "notify" <=> threads'[t].revents = "POLLIN"
         /\ (threads[t].pc = "notify" /\ threads'[t].pc # "notify") =>
              \/ threads'[t].signals = threads[t].signals + 1
              \/ threads'[t].pc = "panicked"
         /\ threads'[t].signals > threads[t].signals =>
              /\ threads[t].pc = "notify"
              /\ threads[t].revents = "POLLIN"]_vars

\* One thread sent a signal for POLLIN, another went back to the top of its
\* loop with POLLNVAL and sent nothing.
C29_Witness ==
    /\ \E t \in ThreadIds :
         threads[t].revents = "POLLIN" /\ threads[t].signals > 0
    /\ \E u \in ThreadIds :
         /\ threads[u].revents = "POLLNVAL"
         /\ threads[u].pc = "recv"
         /\ threads[u].signals = 0

\* C30: a poller thread ends only by receiving the cancellation: it never
\* panics, and it leaves its loop only with a cancellation pending.
C30_PollerLeavesOnlyByCancel ==
    [][\A t \in ThreadIds :
         (~Gone(t) /\ threads'[t].pc \in {"exited", "panicked"}) =>
             /\ threads'[t].pc = "exited"
             /\ threads[t].cancel > 0]_vars

\* C31: the cancellation is looked at at the top of every iteration of the
\* poller loop: after stop_polling has sent it, at most one poll() wait of
\* that thread returns (the one it was in or about to enter).
C31_OnePollAfterCancel == \A t \in ThreadIds : threads[t].late_polls <= 1

\* A thread that was in poll() when the cancellation was sent has exited.
C31_Witness ==
    \E t \in ThreadIds :
        /\ threads[t].pc = "exited"
        /\ threads[t].cancel_sent
        /\ threads[t].late_polls = 1

\* C32: once stop_polling has set cancelation_requested, and until
\* start_polling stores a new poller, no invocation of on_event_ready reads
\* an event, takes a signal or calls the delegate: it returns "stop".
C32_NoReadsAfterStop ==
    [][(event_poller_thread.cancelation_requested
        /\ event_poller_thread'.cancelation_requested) =>
         /\ fed' = fed
         /\ UNCHANGED <<calls, event, ongoing_gesture_type>>
         /\ bridge_obs'.tick # bridge_obs.tick =>
              /\ bridge_obs'.ret = "stop"
              /\ bridge_obs'.read = 0
              /\ \A t \in ThreadIds : threads'[t].signals = threads[t].signals]_vars

\* stop_polling has returned with an event in the queue and a readiness
\* signal pending, and the callback has run since.
C32_Witness ==
    /\ event_poller_thread.cancelation_requested
    /\ main_pc = "ready"
    /\ libinput_queue # <<>>
    /\ \E t \in {event_poller_thread.thread} : threads[t].signals > 0
    /\ bridge_obs.ret = "stop"
    /\ fed = <<>>

Alive(t) == threads[t].pc \in {"recv", "poll", "notify"}

\* C33: at most one poller thread of the backend is alive at any time, and
\* a live poller thread is the one event_poller_thread holds, with its
\* JoinHandle stored or being joined.
C33_OneJoinableThread ==
    /\ Cardinality({t \in ThreadIds : Alive(t)}) <= 1
    /\ \A t \in ThreadIds :
         Alive(t) =>
             /\ event_poller_thread.thread = t
             /\ event_poller_thread.handle \/ main_pc \in {"join", "drop_join"}

\* C34: once the backend has been torn down, no timeout source that would
\* call on_event_ready with its address is left in the main loop.
C34_NoSourceAfterTeardown == main_pc = "dropped" => timers = 0

\* C35: on streams of gestures that do not overlap, what the End of a
\* gesture reports is what a backend reports that was handed the events of
\* that gesture only: no earlier gesture, cancelled or not, has a part in it.
C35_ReportFromOwnGesture ==
    (event.type \in EndTypes /\ obs.ended) => calls = fresh.calls

\* C36: handling a swipe Begin or a pinch Begin changes neither the
\* accumulator nor the classification and calls no delegate; a peak goes
\* back to 0, or the classification back to Unknown, only in the handling
\* of an End.
C36_BeginChangesNothing ==
    [][/\ event'.type \in BeginTypes =>
            /\ UNCHANGED <<ongoing_gesture_type, swipe_x_max, swipe_y_max>>
            /\ calls' = <<>>
       /\ (\/ ongoing_gesture_type # Unknown /\ ongoing_gesture_type' = Unknown
           \/ swipe_x_max # 0 /\ swipe_x_max' = 0
           \/ swipe_y_max # 0 /\ swipe_y_max' = 0) =>
            event'.type \in EndTypes]_vars

\* A Begin was handled on peaks and a classification left by earlier events.
C36_Witness ==
    /\ event.type \in BeginTypes
    /\ swipe_x_max # 0
    /\ swipe_y_max # 0
    /\ ongoing_gesture_type # Unknown
    /\ calls = <<>>

\* C37: whenever the classification is Swipe(d), the larger of |swipe_x_max|
\* and |swipe_y_max| is above GESTURE_DELTA.
C37_SwipeMeansPeakAboveDelta ==
    ongoing_gesture_type.kind = "Swipe" =>
        \/ Abs(swipe_x_max) > GESTURE_DELTA
        \/ Abs(swipe_y_max) > GESTURE_DELTA

\* A direction that outlived a cancelled End, still with its peak.
C37_Witness ==
    /\ ongoing_gesture_type.kind = "Swipe"
    /\ event.type = "GestureSwipeEnd"
    /\ event.cancelled
    /\ Abs(swipe_x_max) > GESTURE_DELTA

\* C38: after any set_active_device call, one that failed to add the new
\* device included, active_device and Input::active_device agree: both are
\* null, or both stand for the same device path.
C38_ActiveReferencesAgree ==
    main_pc # "crashed" =>
        IF active_device = 0 THEN input_active_device = 0
        ELSE input_active_device = valid_device_list[active_device].path

\* C39: valid_device_list is sorted by path, ascending.
C39_ListSortedByPath ==
    \A i, j \in 1..Len(valid_device_list) :
        i < j => valid_device_list[i].path < valid_device_list[j].path

====
